---- MODULE Spec2Model ----
(***************************************************************************)
(* Model of the register-machine simulator (processor.py) together with    *)
(* the artifact conventions it shares with the assembler (isa.py,          *)
(* translation.py).  One step of the model is one iteration of the loop    *)
(* of simulation(): the limit assertion, one call of                       *)
(* ControlUnit.decode_and_execute_instruction with every microstep it      *)
(* performs, and the driver's handling of whatever that call raises.       *)
(***************************************************************************)
EXTENDS Integers, Sequences, FiniteSets, TLC

(***************************************************************************)
(* Program constants.                                                      *)
(***************************************************************************)
DATA_MEM_SZ == 10000

INTERRUPTION_VECTOR_SZ == 1

INT32_MAX == 2147483647

INT32_MIN == (-2147483647) - 1

\* chr() accepts code points 0 .. 0x10FFFF
MaxCodePoint == 1114111

(***************************************************************************)
(* Bounds of the model.                                                    *)
(***************************************************************************)
\* the `limit` argument of simulation(): the instruction cap of the driver
Limit == 9

\* the largest tick key of an input schedule
MaxKey == 2

\* number of source instructions of a generated program (HLT is appended)
ProgLen == 2

\* how far from INT32_MIN, 0 and INT32_MAX the operands of the ALU on its own
\* are taken
EdgeWidth == 1

\* the largest number of `word` cells of a generated data section
MaxWords == 2

\* the largest magnitude of the operands DIV and MOD are run on
MaxOperand == 7

(***************************************************************************)
(* isa.py: registers, opcodes, operand kinds.                              *)
(***************************************************************************)
Register == {"r0", "r1", "r2", "r3", "r4", "pc", "sp"}

Opcode == {"ld", "sv", "add", "sub", "mul", "div", "mod", "cmp", "out", "in",
           "jmp", "je", "jne", "iret", "sti", "cli", "halt"}

OperandType == {"reg", "const"}

\* AluOperations: the names of the ALU operations (the enum's string values
\* are incidental and are not modelled)
AluOperations == {"DIV", "MOD", "CMP", "ADD", "INC", "DEC", "SUB", "MUL",
                  "LEFT", "RIGHT", "NOP"}

opcode2alu(opcode) ==
    CASE opcode = "div" -> "DIV"
      [] opcode = "mod" -> "MOD"
      [] opcode = "cmp" -> "CMP"
      [] opcode = "add" -> "ADD"
      [] opcode = "sub" -> "SUB"
      [] opcode = "mul" -> "MUL"

(***************************************************************************)
(* Instruction records.  A Python instruction dict holds `arg2` as either  *)
(* a register or an integer, told apart by `arg2_type`; here the register  *)
(* is kept in arg2 and the immediate in imm, and a field the dict lacks is *)
(* "" (or 0 for imm).                                                      *)
(***************************************************************************)
Instr(opcode, out, arg1, arg2_type, arg2, imm) ==
    [opcode |-> opcode, out |-> out, arg1 |-> arg1,
     arg2_type |-> arg2_type, arg2 |-> arg2, imm |-> imm]

\* translation.py 146-158: op out, arg1, arg2
Arith(opcode, out, arg1, arg2) == Instr(opcode, out, arg1, "reg", arg2, 0)

ArithC(opcode, out, arg1, c) == Instr(opcode, out, arg1, "const", "", c)

\* translation.py 159-167: jmp/out/in carry their single operand in arg2
Unary(opcode, arg2) == Instr(opcode, "", "", "reg", arg2, 0)

UnaryC(opcode, c) == Instr(opcode, "", "", "const", "", c)

\* translation.py 168-178: je/jne arg1, arg2
Branch(opcode, arg1, arg2) == Instr(opcode, "", arg1, "reg", arg2, 0)

BranchC(opcode, arg1, c) == Instr(opcode, "", arg1, "const", "", c)

\* translation.py 179-189: ld out, arg2
Load(out, arg2) == Instr("ld", out, "", "reg", arg2, 0)

LoadC(out, c) == Instr("ld", out, "", "const", "", c)

\* translation.py 190-200: sv arg1, arg2
Store(arg1, arg2) == Instr("sv", "", arg1, "reg", arg2, 0)

StoreC(arg1, c) == Instr("sv", "", arg1, "const", "", c)

\* translation.py 201-202: iret/cli/sti/halt
Nullary(opcode) == Instr(opcode, "", "", "", "", 0)

(***************************************************************************)
(* Characters.  A one-character Python string is modelled by its code      *)
(* point in a record; ord and chr convert between the two.                 *)
(***************************************************************************)
Char(n) == [chr |-> n]

ord(c) == c.chr

IsCodePoint(n) == n >= 0 /\ n <= MaxCodePoint

RECURSIVE Digits(_)
Digits(n) ==
    IF n < 10 THEN <<Char(48 + n)>> ELSE Digits(n \div 10) \o <<Char(48 + (n % 10))>>

\* str(n) for an integer n
str(n) == IF n < 0 THEN <<Char(45)>> \o Digits(-n) ELSE Digits(n)

(***************************************************************************)
(* Python list indexing: a negative index counts from the end, and an      *)
(* index outside -len .. len-1 raises IndexError.                          *)
(***************************************************************************)
IndexOk(i, len) == i >= -len /\ i < len

ListIndex(i, len) == IF i < 0 THEN i + len ELSE i

Min(S) == CHOOSE x \in S : \A y \in S : x <= y

(***************************************************************************)
(* Alu (processor.py 39-58) and the wrap of DataPath.execute_alu.          *)
(***************************************************************************)
\* Python's true division: the quotient left / right, a float and not an
\* integer.  It is kept as the pair it is the quotient of.
TrueDiv(left, right) == [num |-> left, den |-> right]

\* Python's %: the remainder has the sign of the divisor
PyMod(left, right) ==
    IF right > 0 THEN left % right ELSE -((-left) % (-right))

AluResultDecUp(op, left, right) ==
    CASE op = "DIV" -> TrueDiv(left, right)
      [] op = "MOD" -> PyMod(left, right)
      [] op = "CMP" -> left - right
      [] op = "ADD" -> left + right
      [] op = "INC" -> left + 1
      [] op = "DEC" -> left + 1
      [] op = "SUB" -> left - right
      [] op = "MUL" -> left * right
      [] op = "LEFT" -> left
      [] op = "RIGHT" -> right
      [] op = "NOP" -> 0

AluResult(op, left, right) ==
    CASE op = "DIV" -> TrueDiv(left, right)
      [] op = "MOD" -> PyMod(left, right)
      [] op = "CMP" -> left - right
      [] op = "ADD" -> left + right
      [] op = "INC" -> left + 1
      [] op = "DEC" -> left - 1
      [] op = "SUB" -> left - right
      [] op = "MUL" -> left * right
      [] op = "LEFT" -> left
      [] op = "RIGHT" -> right
      [] op = "NOP" -> 0

RECURSIVE WrapAbove(_)
WrapAbove(res) ==
    IF res > INT32_MAX THEN WrapAbove(INT32_MIN + (res - INT32_MAX)) ELSE res

RECURSIVE WrapBelow(_)
WrapBelow(res) ==
    IF res < INT32_MIN THEN WrapBelow(INT32_MAX - (res - INT32_MIN)) ELSE res

Wrap(res) == WrapBelow(WrapAbove(res))

(***************************************************************************)
(* Python integers near and beyond the 32-bit limits.  execute_alu works   *)
(* on Python's unbounded integers; the model checker's integers stop at    *)
(* 2^31 - 1.  A wide integer is five limbs <<d1, .., d5>> standing for     *)
(* d1 + d2*Radix + .. + d5*Radix^4, the first four in 0 .. Radix-1 and the *)
(* last of either sign.  The operations below are Python's +, -, *, <, ==  *)
(* on such numbers.                                                        *)
(***************************************************************************)
Radix == 32768

Carry(d) ==
    LET x1 == d[1]
        x2 == d[2] + (x1 \div Radix)
        x3 == d[3] + (x2 \div Radix)
        x4 == d[4] + (x3 \div Radix)
        x5 == d[5] + (x4 \div Radix)
    IN  <<x1 % Radix, x2 % Radix, x3 % Radix, x4 % Radix, x5>>

\* the wide integer equal to the integer n
Wide(n) == Carry(<<n, 0, 0, 0, 0>>)

WideAdd(a, b) == Carry([i \in 1 .. 5 |-> a[i] + b[i]])

WideNeg(a) == Carry([i \in 1 .. 5 |-> -a[i]])

WideSub(a, b) == WideAdd(a, WideNeg(b))

WideIsNeg(a) == a[5] < 0

WideLess(a, b) == WideIsNeg(WideSub(a, b))

WideAbs(a) == IF WideIsNeg(a) THEN WideNeg(a) ELSE a

\* limb k of the product of two magnitudes, before the carries
RECURSIVE Convolve(_, _, _, _)
Convolve(x, y, k, i) ==
    IF i > k THEN 0 ELSE x[i] * y[k + 1 - i] + Convolve(x, y, k, i + 1)

\* for |a|, |b| <= 2^31: no limb of the convolution passes 2^31 - 1
WideMul(a, b) ==
    LET x == WideAbs(a)
        y == WideAbs(b)
        p == Carry([k \in 1 .. 5 |-> Convolve(x, y, k, 1)])
    IN  IF WideIsNeg(a) = WideIsNeg(b) THEN p ELSE WideNeg(p)

\* Alu.operations on wide integers, without DIV and MOD
WideAluResult(op, left, right) ==
    CASE op = "CMP" -> WideSub(left, right)
      [] op = "ADD" -> WideAdd(left, right)
      [] op = "INC" -> WideAdd(left, Wide(1))
      [] op = "DEC" -> WideSub(left, Wide(1))
      [] op = "SUB" -> WideSub(left, right)
      [] op = "MUL" -> WideMul(left, right)
      [] op = "LEFT" -> left
      [] op = "RIGHT" -> right
      [] op = "NOP" -> Wide(0)

\* the literals 2147483647, -2147483648 and 2147483648 of execute_alu
WideMax == Wide(INT32_MAX)

WideMin == Wide(INT32_MIN)

WideTwoTo31 == WideAdd(WideMax, Wide(1))

\* while res > 2147483647: res = -2147483648 + (res - 2147483647)
RECURSIVE WideWrapAbove(_)
WideWrapAbove(res) ==
    IF WideLess(WideMax, res)
    THEN WideWrapAbove(WideAdd(WideMin, WideSub(res, WideMax)))
    ELSE res

\* while res < -2147483648: res = 2147483647 - (res + 2147483648)
RECURSIVE WideWrapBelow(_)
WideWrapBelow(res) ==
    IF WideLess(res, WideMin)
    THEN WideWrapBelow(WideSub(WideMax, WideAdd(res, WideTwoTo31)))
    ELSE res

WideWrap(res) == WideWrapBelow(WideWrapAbove(res))

InInt32(w) == ~WideLess(w, WideMin) /\ ~WideLess(WideMax, w)

(***************************************************************************)
(* The machine threaded through the microsteps of one call of              *)
(* decode_and_execute_instruction: the datapath dp, the control unit cu    *)
(* and exc, the exception raised so far ("none" while none is).  A         *)
(* microstep after a raise does nothing: Python has left the call.         *)
(***************************************************************************)
MemLen == DATA_MEM_SZ + 2

Raise(m, e) == [m EXCEPT !.exc = e]

Ok(m) == m.exc = "none"

\* a cell of the data memory: cells never written hold the 0 of line 351
Cell(data_memory, a) == IF a \in DOMAIN data_memory THEN data_memory[a] ELSE 0

latch_registers_unchecked(m, operand_1, operand_2, output) ==
    IF ~Ok(m) THEN m
    ELSE [m EXCEPT !.dp.operand_1 = operand_1, !.dp.operand_2 = operand_2,
                   !.dp.output = output]

latch_registers(m, operand_1, operand_2, output) ==
    IF ~Ok(m) THEN m
    ELSE LET m1 == [m EXCEPT !.dp.operand_1 = operand_1,
                             !.dp.operand_2 = operand_2]
         IN  IF output = "r0" THEN Raise(m1, "MemoryError")
             ELSE [m1 EXCEPT !.dp.output = output]

\* const_operand is <<>> for Python's None and <<c>> for the constant c
latch_alu(m, const_operand) ==
    IF ~Ok(m) THEN m
    ELSE [m EXCEPT
            !.dp.alu_left = m.dp.registers[m.dp.operand_1],
            !.dp.alu_right = IF const_operand # <<>> THEN const_operand[1]
                             ELSE m.dp.registers[m.dp.operand_2],
            !.dp.data_bus = m.dp.registers[m.dp.operand_2]]

latch_output(m) ==
    IF ~Ok(m) THEN m
    ELSE [m EXCEPT !.dp.registers[m.dp.output] = m.dp.output_bus]

execute_alu(m, instruction) ==
    IF ~Ok(m) THEN m
    ELSE IF instruction \in {"DIV", "MOD"} /\ m.dp.alu_right = 0
         THEN Raise(m, "ZeroDivisionError")
    ELSE LET res == Wrap(AluResult(instruction, m.dp.alu_left, m.dp.alu_right))
         IN  [m EXCEPT !.dp.zero_flag = (res = 0),
                       !.dp.alu_bus = res,
                       !.dp.output_bus = res]

write(m) ==
    IF ~Ok(m) THEN m
    ELSE IF ~IndexOk(m.dp.alu_bus, MemLen) THEN Raise(m, "IndexError")
    ELSE [m EXCEPT !.dp.data_memory =
            (ListIndex(m.dp.alu_bus, MemLen) :> m.dp.data_bus) @@ @]

read(m) ==
    IF ~Ok(m) THEN m
    ELSE IF ~IndexOk(m.dp.alu_bus, MemLen) THEN Raise(m, "IndexError")
    ELSE [m EXCEPT !.dp.output_bus =
            Cell(m.dp.data_memory, ListIndex(m.dp.alu_bus, MemLen))]

print(m) ==
    IF ~Ok(m) THEN m
    ELSE IF m.dp.output_int
         THEN [m EXCEPT !.dp.output_buffer = Append(@, m.dp.alu_bus)]
    ELSE IF ~IsCodePoint(m.dp.alu_bus) THEN Raise(m, "ValueError")
    ELSE [m EXCEPT !.dp.output_buffer = Append(@, Char(m.dp.alu_bus))]

\* what input()'s except clause turns a raised exception into: it names
\* KeyError, and indexing a list past its end raises IndexError
InputExcept(raised) == IF raised = "KeyError" THEN "EOFError" ELSE raised

input_stuck(m) ==
    IF ~Ok(m) THEN m
    ELSE IF ~IndexOk(m.dp.input_pointer, Len(m.dp.input_buffer))
         THEN Raise(m, InputExcept("IndexError"))
    ELSE [m EXCEPT
            !.dp.output_bus =
                ord(m.dp.input_buffer[ListIndex(m.dp.input_pointer,
                                                Len(m.dp.input_buffer)) + 1])]

input(m) ==
    IF ~Ok(m) THEN m
    ELSE IF ~IndexOk(m.dp.input_pointer, Len(m.dp.input_buffer))
         THEN Raise(m, InputExcept("IndexError"))
    ELSE [m EXCEPT
            !.dp.output_bus =
                ord(m.dp.input_buffer[ListIndex(m.dp.input_pointer,
                                                Len(m.dp.input_buffer)) + 1]),
            !.dp.input_pointer = @ + 1]

get_zero_flag(m) == m.dp.zero_flag

(***************************************************************************)
(* ControlUnit.                                                            *)
(***************************************************************************)
tick_skipped(m) == m

tick(m) == IF ~Ok(m) THEN m ELSE [m EXCEPT !.cu.tick = @ + 1]

latch_program_counter(m) ==
    IF ~Ok(m) THEN m ELSE [m EXCEPT !.dp.registers["pc"] = @ + 1]

(***************************************************************************)
(* decode_and_execute_instruction, lines 185-206: the admission check at   *)
(* the fetch boundary and the admission sequence.                          *)
(***************************************************************************)
interrupt_vector == <<0>>

AdmissibleLate(cu) ==
    /\ cu.int_enabled
    /\ ~cu.is_interrupted
    /\ DOMAIN cu.int_queue # {}
    /\ cu.tick > Min(DOMAIN cu.int_queue)

AdmissibleNested(cu) ==
    /\ cu.int_enabled
    /\ DOMAIN cu.int_queue # {}
    /\ cu.tick >= Min(DOMAIN cu.int_queue)

Admissible(cu) ==
    /\ cu.int_enabled
    /\ ~cu.is_interrupted
    /\ DOMAIN cu.int_queue # {}
    /\ cu.tick >= Min(DOMAIN cu.int_queue)

Max(S) == CHOOSE x \in S : \A y \in S : x >= y

\* the key the admission takes from the queue: min(self.int_queue.keys())
NextKeyMax(int_queue) == Max(DOMAIN int_queue)

NextKey(int_queue) == Min(DOMAIN int_queue)

Without(int_queue, k) == [j \in DOMAIN int_queue \ {k} |-> int_queue[j]]

AdmitVectorIsHandler(m) ==
    LET k == NextKey(m.cu.int_queue)
        interrupt == m.cu.int_queue[k]
        m0 == [m EXCEPT !.cu.int_queue = Without(@, k)]
        m1 == tick(write(execute_alu(latch_alu(
                  latch_registers(m0, "sp", "pc", "r1"), <<>>), "LEFT")))
        m2 == tick(latch_output(execute_alu(latch_alu(
                  latch_registers(m1, "sp", "r0", "sp"), <<>>), "DEC")))
        m3 == tick(latch_output(execute_alu(latch_alu(
                  latch_registers(m2, "r0", "r0", "pc"),
                  <<interrupt_vector[1]>>), "RIGHT")))
    IN  IF ~Ok(m3) THEN m3
        ELSE [m3 EXCEPT !.dp.input_buffer = Append(@, interrupt),
                        !.cu.is_interrupted = TRUE]

Admit(m) ==
    LET k == NextKey(m.cu.int_queue)
        interrupt == m.cu.int_queue[k]
        m0 == [m EXCEPT !.cu.int_queue = Without(@, k)]
        \* push: memory[SP] <- PC
        m1 == tick(write(execute_alu(latch_alu(
                  latch_registers(m0, "sp", "pc", "r1"), <<>>), "LEFT")))
        \* SP <- SP - 1
        m2 == tick(latch_output(execute_alu(latch_alu(
                  latch_registers(m1, "sp", "r0", "sp"), <<>>), "DEC")))
        \* PC <- memory[interrupt_vector[0]]
        m3 == tick(latch_output(read(execute_alu(latch_alu(
                  latch_registers(m2, "r0", "r0", "pc"),
                  <<interrupt_vector[1]>>), "RIGHT"))))
    IN  IF ~Ok(m3) THEN m3
        ELSE [m3 EXCEPT !.dp.input_buffer = Append(@, interrupt),
                        !.cu.is_interrupted = TRUE]

\* the machine at the fetch: after the admission, when there is one
Boundary(m) == IF Admissible(m.cu) THEN Admit(m) ELSE m

(***************************************************************************)
(* decode_and_execute_instruction, lines 213-308: the microsequence of     *)
(* each opcode.                                                            *)
(***************************************************************************)
ExecIretFallsThrough(m) ==
    LET m1 == tick(latch_output(execute_alu(latch_alu(
                  latch_registers(m, "sp", "r0", "sp"), <<>>), "INC")))
        m2 == tick(latch_output(read(execute_alu(latch_alu(
                  latch_registers(m1, "sp", "r0", "pc"), <<>>), "LEFT"))))
    IN  IF ~Ok(m2) THEN m2
        ELSE latch_program_counter([m2 EXCEPT !.cu.is_interrupted = FALSE])

ExecIret(m) ==
    LET m1 == tick(latch_output(execute_alu(latch_alu(
                  latch_registers(m, "sp", "r0", "sp"), <<>>), "INC")))
        m2 == tick(latch_output(read(execute_alu(latch_alu(
                  latch_registers(m1, "sp", "r0", "pc"), <<>>), "LEFT"))))
    IN  IF ~Ok(m2) THEN m2 ELSE [m2 EXCEPT !.cu.is_interrupted = FALSE]

\* lines 237-238, m0 the machine before and m1 after the CMP of line 235
BranchTakenStale(opcode, m0, m1) ==
    \/ opcode = "jmp"
    \/ opcode = "je" /\ get_zero_flag(m0)
    \/ opcode = "jne" /\ ~get_zero_flag(m0)

BranchTaken(opcode, m0, m1) ==
    \/ opcode = "jmp"
    \/ opcode = "je" /\ get_zero_flag(m1)
    \/ opcode = "jne" /\ ~get_zero_flag(m1)

ExecJumpCompareFree(m, instr) ==
    LET m1 == IF instr.opcode # "jmp"
              THEN execute_alu(latch_alu(
                       latch_registers(m, instr.arg1, "r0", "r1"), <<>>), "CMP")
              ELSE m
        m2 == IF instr.arg2_type = "const"
              THEN latch_alu(latch_registers(m1, "r0", "r0", "pc"), <<instr.imm>>)
              ELSE latch_alu(latch_registers(m1, "r0", instr.arg2, "pc"), <<>>)
    IN  IF ~Ok(m1) THEN m1
        ELSE IF BranchTaken(instr.opcode, m, m1)
             THEN tick(latch_output(execute_alu(m2, "RIGHT")))
        ELSE latch_program_counter(m1)

ExecJump(m, instr) ==
    LET m1 == IF instr.opcode # "jmp"
              THEN tick(execute_alu(latch_alu(
                       latch_registers(m, instr.arg1, "r0", "r1"), <<>>), "CMP"))
              ELSE m
        m2 == IF instr.arg2_type = "const"
              THEN latch_alu(latch_registers(m1, "r0", "r0", "pc"), <<instr.imm>>)
              ELSE latch_alu(latch_registers(m1, "r0", instr.arg2, "pc"), <<>>)
    IN  IF ~Ok(m1) THEN m1
        ELSE IF BranchTaken(instr.opcode, m, m1)
             THEN tick(latch_output(execute_alu(m2, "RIGHT")))
        ELSE latch_program_counter(m1)

ExecOut(m, instr) ==
    LET m1 == IF instr.arg2_type = "const"
              THEN latch_alu(latch_registers(m, "r0", "r0", "r1"), <<instr.imm>>)
              ELSE latch_alu(latch_registers(m, "r0", instr.arg2, "r1"), <<>>)
    IN  latch_program_counter(tick(print(execute_alu(m1, "RIGHT"))))

ExecIn(m, instr) ==
    latch_program_counter(tick(latch_output(input(execute_alu(latch_alu(
        latch_registers(m, "r0", "r0", instr.arg2), <<>>), "NOP")))))

ExecArith(m, instr) ==
    LET m1 == IF instr.arg2_type = "reg"
              THEN latch_alu(latch_registers(m, instr.arg1, instr.arg2, instr.out),
                             <<>>)
              ELSE latch_alu(latch_registers(m, instr.arg1, "r0", instr.out),
                             <<instr.imm>>)
    IN  latch_program_counter(tick(latch_output(
            execute_alu(m1, opcode2alu(instr.opcode)))))

ExecLd(m, instr) ==
    LET m1 == IF instr.arg2_type = "reg"
              THEN latch_alu(latch_registers(m, instr.arg2, "r0", instr.out), <<>>)
              ELSE latch_alu(latch_registers(m, "r0", "r0", instr.out),
                             <<instr.imm>>)
    IN  latch_program_counter(tick(latch_output(read(execute_alu(m1, "RIGHT")))))

ExecSvSwapped(m, instr) ==
    LET m1 == IF instr.arg2_type = "reg"
              THEN execute_alu(latch_alu(
                       latch_registers(m, instr.arg1, instr.arg2, "r1"), <<>>),
                       "LEFT")
              ELSE execute_alu(latch_alu(
                       latch_registers(m, "r0", instr.arg1, "r1"), <<instr.imm>>),
                       "RIGHT")
    IN  latch_program_counter(tick(write(m1)))

ExecSv(m, instr) ==
    LET m1 == IF instr.arg2_type = "reg"
              THEN execute_alu(latch_alu(
                       latch_registers(m, instr.arg2, instr.arg1, "r1"), <<>>),
                       "LEFT")
              ELSE execute_alu(latch_alu(
                       latch_registers(m, "r0", instr.arg1, "r1"), <<instr.imm>>),
                       "RIGHT")
    IN  latch_program_counter(tick(write(m1)))

ExecFlag(m, instr) ==
    latch_program_counter(tick(
        IF ~Ok(m) THEN m ELSE [m EXCEPT !.cu.int_enabled = (instr.opcode = "sti")]))

Execute(m, instr) ==
    CASE instr.opcode = "halt" -> Raise(m, "StopIteration")
      [] instr.opcode = "iret" -> ExecIret(m)
      [] instr.opcode \in {"jne", "je", "jmp"} -> ExecJump(m, instr)
      [] instr.opcode = "out" -> ExecOut(m, instr)
      [] instr.opcode = "in" -> ExecIn(m, instr)
      [] instr.opcode \in {"add", "cmp", "mul", "div", "mod", "sub"} ->
            ExecArith(m, instr)
      [] instr.opcode = "ld" -> ExecLd(m, instr)
      [] instr.opcode = "sv" -> ExecSv(m, instr)
      [] instr.opcode \in {"sti", "cli"} -> ExecFlag(m, instr)

\* lines 208-211: the fetch of program[PC]
Fetch(program, m) ==
    IF ~Ok(m) THEN m
    ELSE IF ~IndexOk(m.dp.registers["pc"], Len(program)) THEN Raise(m, "IndexError")
    ELSE [m EXCEPT
            !.cu.instr = program[ListIndex(m.dp.registers["pc"], Len(program)) + 1],
            !.cu.instr_cnt = @ + 1]

\* lines 213-308: the dispatch on the fetched instruction
Dispatch(f) == IF ~Ok(f) THEN f ELSE Execute(f, f.cu.instr)

decode_and_execute_instruction(program, m) ==
    Dispatch(Fetch(program, Boundary(m)))

(***************************************************************************)
(* State.                                                                  *)
(*   program       the artifact read by read_code: code and data           *)
(*   input_dict    the input schedule as launch_processor read it          *)
(*   dp, cu        the DataPath and the ControlUnit                        *)
(*   instr_counter the driver's count of completed instructions            *)
(*   state         "loop" while simulation() is in its loop, "returned"    *)
(*                 once it has returned, "raised" once an exception has    *)
(*                 left it                                                 *)
(*   raised        the exception that ended the loop ("none" before)       *)
(*   result        <<>>, or <<the returned triple>>                        *)
(*   journal       history: one entry per call of                          *)
(*                 decode_and_execute_instruction, what the fetch boundary *)
(*                 looked like and what was admitted and fetched           *)
(*   script        the assembly source handed to translate(), as its lines *)
(*                 of terms; <<>> when the artifact is given directly      *)
(*   alu           the Alu of a datapath exercised on its own, with the    *)
(*                 buses execute_alu drives; NoAlu when the ALU is only    *)
(*                 used through dp                                         *)
(***************************************************************************)
VARIABLES program, input_dict, dp, cu, instr_counter, state, raised, result,
          journal, script, alu

vars == <<program, input_dict, dp, cu, instr_counter, state, raised, result,
          journal, script, alu>>

NoAlu == [phase |-> "none"]

\* RegFile.__init__
RegFile == [r \in Register |-> IF r = "sp" THEN DATA_MEM_SZ ELSE 0]

\* simulation, lines 351-353: the data image copied to the front of memory
LoadData(data) == [i \in 0 .. Len(data) - 1 |-> data[i + 1]]

\* DataPath.__init__, Alu.__init__
DataPath(data_memory, output_int) ==
    [data_memory |-> data_memory, registers |-> RegFile,
     operand_1 |-> "r0", operand_2 |-> "r0", output |-> "r1",
     alu_left |-> 0, alu_right |-> 0, zero_flag |-> TRUE,
     alu_bus |-> 0, output_bus |-> 0, data_bus |-> 0,
     input_buffer |-> <<>>, input_pointer |-> 0, output_buffer |-> <<>>,
     output_int |-> output_int]

\* ControlUnit.__init__
ControlUnit(interrupt_queue) ==
    [instr |-> Nullary(""), int_queue |-> interrupt_queue, tick |-> 0,
     is_interrupted |-> FALSE, int_enabled |-> FALSE, instr_cnt |-> 0]

(***************************************************************************)
(* The inputs: artifacts the assembler emits and input schedules.          *)
(***************************************************************************)
Payloads == {Char(97), Char(98)}

\* every schedule with keys in 0 .. MaxKey (a dict: the keys are distinct)
Schedules ==
    UNION {[K -> Payloads] : K \in SUBSET (0 .. MaxKey)}

\* the schedule with an interrupt at each of the ticks 0 .. n-1
Dense(n) == [k \in 0 .. n - 1 |-> IF k % 2 = 0 THEN Char(97) ELSE Char(98)]

\* no interrupt at all, or one at each of the first MaxKey ticks
DenseSchedules == {Dense(0), Dense(MaxKey)}

\* sti; spin: jmp spin; handler: in r; out r; iret -- with int 0 handler
EchoCode(r) ==
    <<Nullary("sti"), UnaryC("jmp", 1),
      Unary("in", r), Unary("out", r), Nullary("iret"), Nullary("halt")>>

EchoPrograms == {[code |-> EchoCode(r), data |-> <<2>>] : r \in {"r1", "r2"}}

\* instructions a generated program is made of
Alphabet ==
    {Nullary("sti"), Nullary("cli"), Nullary("iret"),
     Unary("in", "r1"), Unary("in", "r0"),
     Unary("out", "r1"), UnaryC("out", 98),
     ArithC("add", "r1", "r1", 1), ArithC("add", "sp", "sp", 1),
     Arith("add", "r0", "r1", "r1"), ArithC("sub", "r1", "r0", 1),
     Arith("mul", "r2", "r1", "r1"), ArithC("div", "r1", "r1", 0),
     ArithC("mod", "r2", "r1", 2), ArithC("cmp", "r2", "r1", 0),
     LoadC("r1", 0), LoadC("r0", 0), Load("r2", "r1"),
     StoreC("r1", 1),
     UnaryC("jmp", 0), BranchC("je", "r1", 0), BranchC("jne", "r1", 0)}

\* translate, line 221: HLT is appended to every code stream
GeneratedCode == {c \o <<Nullary("halt")>> : c \in [1 .. ProgLen -> Alphabet]}

\* data[0] is the interrupt vector slot, set by `int 0 <address>`
GeneratedPrograms ==
    {[code |-> c, data |-> <<h>>] : c \in GeneratedCode, h \in {0, 1}}

Init ==
    /\ \/ program \in EchoPrograms /\ input_dict \in Schedules
       \/ program \in GeneratedPrograms /\ input_dict \in DenseSchedules
    /\ \E output_int \in BOOLEAN :
          dp = DataPath(LoadData(program.data), output_int)
    /\ cu = ControlUnit(input_dict)
    /\ instr_counter = 0
    /\ state = "loop"
    /\ raised = "none"
    /\ result = <<>>
    /\ journal = <<>>
    /\ script = <<>>
    /\ alu = NoAlu

(***************************************************************************)
(* simulation(), lines 356-378.                                            *)
(***************************************************************************)
Machine == [dp |-> dp, cu |-> cu, exc |-> "none"]

AtFetchHaltFirst ==
    IF /\ IndexOk(dp.registers["pc"], Len(program.code))
       /\ program.code[ListIndex(dp.registers["pc"], Len(program.code)) + 1].opcode
             = "halt"
    THEN Fetch(program.code, Machine)
    ELSE Fetch(program.code, Boundary(Machine))

\* the machine at the fetch of the call of line 361 from the current state
AtFetch == Fetch(program.code, Boundary(Machine))

\* the machine that call leaves
Decoded == decode_and_execute_instruction(program.code, Machine)

\* the journal entry of the call that passes the fetch at f and ends at d
Entry(f, d) ==
    [tick |-> cu.tick, pc |-> dp.registers["pc"], sp |-> dp.registers["sp"],
     int_enabled |-> cu.int_enabled, in_handler |-> cu.is_interrupted,
     pending |-> DOMAIN cu.int_queue,
     admitted |-> {k \in DOMAIN cu.int_queue :
                     \/ k \notin DOMAIN d.cu.int_queue
                     \/ d.cu.int_queue[k] # cu.int_queue[k]},
     fetched |-> d.cu.instr_cnt > cu.instr_cnt,
     fetch_pc |-> f.dp.registers["pc"],
     instr |-> IF d.cu.instr_cnt > cu.instr_cnt THEN d.cu.instr ELSE Nullary("")]

\* lines 370-377: the output buffer rendered as the returned string
RECURSIVE Render(_, _)
Render(output_buffer, output_int) ==
    IF output_buffer = <<>> THEN <<>>
    ELSE (IF output_int THEN str(Head(output_buffer)) ELSE <<Head(output_buffer)>>)
         \o Render(Tail(output_buffer), output_int)

CaughtNoMemoryError == {"EOFError", "StopIteration"}

\* the except clauses of lines 364-369
Caught == {"EOFError", "MemoryError", "StopIteration"}

RunningUncapped == state = "loop"

Running == state = "loop" /\ Limit > instr_counter

\* an iteration that completes: lines 360-363
Iterate ==
    /\ Running
    /\ LET f == AtFetch
           d == Dispatch(f)
       IN  /\ Ok(d)
           /\ dp' = d.dp
           /\ cu' = d.cu
           /\ journal' = Append(journal, Entry(f, d))
    /\ instr_counter' = instr_counter + 1
    /\ UNCHANGED <<program, input_dict, state, raised, result, script, alu>>

\* the call raises what the driver catches: lines 364-378
Stop ==
    /\ Running
    /\ LET f == AtFetch
           d == Dispatch(f)
       IN  /\ d.exc \in Caught
           /\ dp' = d.dp
           /\ cu' = d.cu
           /\ raised' = d.exc
           /\ result' = <<Render(d.dp.output_buffer, d.dp.output_int),
                          instr_counter, d.cu.tick>>
           /\ journal' = Append(journal, Entry(f, d))
    /\ state' = "returned"
    /\ UNCHANGED <<program, input_dict, instr_counter, script, alu>>

\* the call raises anything else: the exception leaves simulation()
Crash ==
    /\ Running
    /\ LET f == AtFetch
           d == Dispatch(f)
       IN  /\ ~Ok(d)
           /\ d.exc \notin Caught
           /\ dp' = d.dp
           /\ cu' = d.cu
           /\ raised' = d.exc
           /\ journal' = Append(journal, Entry(f, d))
    /\ state' = "raised"
    /\ UNCHANGED <<program, input_dict, instr_counter, result, script, alu>>

\* line 360: the assertion fails
LimitExceeded ==
    /\ state = "loop"
    /\ ~(Limit > instr_counter)
    /\ state' = "raised"
    /\ raised' = "AssertionError"
    /\ UNCHANGED <<program, input_dict, dp, cu, instr_counter, result, journal,
                   script, alu>>

Next == Iterate \/ Stop \/ Crash \/ LimitExceeded

Spec == Init /\ [][Next]_vars

\* One turn of the loop of lines 359-363, seen from the driver: the call
\* returned and the count went up, or the loop was left by an exception.
\* Every step of Next is a turn.
Turn ==
    /\ state = "loop"
    /\ \/ instr_counter' = instr_counter + 1 /\ state' = "loop"
       \/ instr_counter' = instr_counter /\ state' \in {"returned", "raised"}

\* what the driver itself holds: lines 356 and 359-369
driver == <<instr_counter, state>>

\* simulation() is one sequential loop with nothing to wait for: while it
\* is in the loop the interpreter takes the next turn
FairSpec == Spec /\ WF_driver(Turn)

(***************************************************************************)
(* The same driver on programs made of branches, stores and compares, with *)
(* the instructions that set up their registers, and on programs that      *)
(* enable interrupts and stand on HLT.                                     *)
(***************************************************************************)
FrameAlphabet ==
    {Nullary("sti"),
     ArithC("add", "r1", "r1", 1), ArithC("sub", "r1", "r0", 1),
     ArithC("add", "r2", "r0", 7),
     LoadC("r1", 0),
     StoreC("r1", 1), StoreC("r2", 3), StoreC("r1", MemLen),
     Store("r2", "r1"), Store("r1", "r2"),
     ArithC("cmp", "r2", "r1", 0), Arith("cmp", "r1", "r1", "r2"),
     Arith("cmp", "r0", "r1", "r1"),
     UnaryC("jmp", 0), BranchC("je", "r1", 0), BranchC("jne", "r1", 0),
     Branch("jne", "r1", "r1")}

FrameCode == {c \o <<Nullary("halt")>> : c \in [1 .. ProgLen -> FrameAlphabet]}

FramePrograms ==
    {[code |-> c, data |-> <<h>>] : c \in FrameCode, h \in {0, 1}}

\* sti; halt; handler: in r; out r; iret -- with int 0 handler: the main
\* program stands on its HLT as soon as interrupts are enabled
ParkedCode(r) ==
    <<Nullary("sti"), Nullary("halt"),
      Unary("in", r), Unary("out", r), Nullary("iret"), Nullary("halt")>>

ParkedPrograms == {[code |-> ParkedCode(r), data |-> <<2>>] : r \in {"r1", "r2"}}

FrameInit ==
    /\ \/ program \in FramePrograms /\ input_dict \in DenseSchedules
       \/ program \in ParkedPrograms /\ input_dict \in Schedules
    /\ \E output_int \in BOOLEAN :
          dp = DataPath(LoadData(program.data), output_int)
    /\ cu = ControlUnit(input_dict)
    /\ instr_counter = 0
    /\ state = "loop"
    /\ raised = "none"
    /\ result = <<>>
    /\ journal = <<>>
    /\ script = <<>>
    /\ alu = NoAlu

FrameSpec == FrameInit /\ [][Next]_vars

(***************************************************************************)
(* The ALU on its own: DataPath.latch_alu puts two operands on the inputs  *)
(* of the Alu, DataPath.execute_alu runs one operation on them.  The       *)
(* operands are 32-bit values at the edges of the range and around zero.   *)
(***************************************************************************)
Edge ==
    {INT32_MIN + i : i \in 0 .. EdgeWidth}
        \cup (-EdgeWidth .. EdgeWidth)
        \cup {INT32_MAX - i : i \in 0 .. EdgeWidth}

\* the operations whose result is an integer
IntegerOperations == AluOperations \ {"DIV", "MOD"}

\* The loop of line 118 takes off 2^32 - 1 per turn: about 2^30 turns for the
\* product of two operands that are both near INT32_MAX or both near
\* INT32_MIN.  Those products are left out.
FewTurns(op, left, right) ==
    \/ op # "MUL"
    \/ left \in -EdgeWidth .. EdgeWidth
    \/ right \in -EdgeWidth .. EdgeWidth
    \/ (left < 0) # (right < 0)

\* Alu.__init__ with the operands of the first latch_alu
AluInit ==
    /\ \E left, right \in Edge :
          alu = [phase |-> "latched", left |-> left, right |-> right,
                 instruction |-> "NOP", zero_flag |-> TRUE,
                 alu_bus |-> Wide(0), output_bus |-> Wide(0)]
    /\ program = [code |-> <<>>, data |-> <<>>]
    /\ input_dict = <<>>
    /\ dp = DataPath(<<>>, FALSE)
    /\ cu = ControlUnit(<<>>)
    /\ instr_counter = 0
    /\ state = "alu"
    /\ raised = "none"
    /\ result = <<>>
    /\ journal = <<>>
    /\ script = <<>>

execute_alu_flag_before_wrap(a, instruction) ==
    LET raw == WideAluResult(instruction, Wide(a.left), Wide(a.right))
        res == WideWrap(raw)
    IN  [a EXCEPT !.phase = "executed",
                  !.instruction = instruction,
                  !.zero_flag = (raw = Wide(0)),
                  !.alu_bus = res,
                  !.output_bus = res]

\* DataPath.execute_alu on Python integers of any size
execute_alu_wide(a, instruction) ==
    LET res == WideWrap(WideAluResult(instruction, Wide(a.left), Wide(a.right)))
    IN  [a EXCEPT !.phase = "executed",
                  !.instruction = instruction,
                  !.zero_flag = (res = Wide(0)),
                  !.alu_bus = res,
                  !.output_bus = res]

\* DataPath.execute_alu on the latched operands
ExecuteAlu ==
    /\ alu.phase = "latched"
    /\ \E instruction \in IntegerOperations :
          /\ FewTurns(instruction, alu.left, alu.right)
          /\ alu' = execute_alu_wide(alu, instruction)
    /\ UNCHANGED <<program, input_dict, dp, cu, instr_counter, state, raised,
                   result, journal, script>>

\* DataPath.latch_alu: the next pair of operands
LatchAlu ==
    /\ alu.phase = "executed"
    /\ \E left, right \in Edge :
          alu' = [alu EXCEPT !.phase = "latched", !.left = left, !.right = right]
    /\ UNCHANGED <<program, input_dict, dp, cu, instr_counter, state, raised,
                   result, journal, script>>

AluNext == ExecuteAlu \/ LatchAlu

AluSpec == AluInit /\ [][AluNext]_vars

(***************************************************************************)
(* The ALU on its own, dividing: DIV and MOD on operands of small          *)
(* magnitude.  The quotient of Python's / is a float, kept as a TrueDiv     *)
(* pair; |left / right| <= |left| and |left % right| < |right|, so neither *)
(* loop of lines 118-121 runs on these operands.                           *)
(***************************************************************************)
Operands == -MaxOperand .. MaxOperand

DivInit ==
    /\ \E left, right \in Operands :
          alu = [phase |-> "latched", left |-> left, right |-> right,
                 instruction |-> "NOP", zero_flag |-> TRUE,
                 alu_bus |-> 0, output_bus |-> 0]
    /\ program = [code |-> <<>>, data |-> <<>>]
    /\ input_dict = <<>>
    /\ dp = DataPath(<<>>, FALSE)
    /\ cu = ControlUnit(<<>>)
    /\ instr_counter = 0
    /\ state = "alu"
    /\ raised = "none"
    /\ result = <<>>
    /\ journal = <<>>
    /\ script = <<>>

\* res == 0: the result of DIV is a float, that of MOD an integer
IsZero(instruction, res) ==
    IF instruction = "DIV" THEN res.num = 0 ELSE res = 0

\* DataPath.execute_alu for DIV and MOD
execute_alu_quotient(a, instruction) ==
    IF a.right = 0
    THEN [a EXCEPT !.phase = "raised", !.instruction = instruction]
    ELSE LET res == AluResult(instruction, a.left, a.right)
         IN  [a EXCEPT !.phase = "executed",
                       !.instruction = instruction,
                       !.zero_flag = IsZero(instruction, res),
                       !.alu_bus = res,
                       !.output_bus = res]

\* execute_alu(DIV) or execute_alu(MOD) on the latched operands; a zero
\* divisor raises ZeroDivisionError
ExecuteQuotient ==
    /\ alu.phase = "latched"
    /\ \E instruction \in {"DIV", "MOD"} :
          /\ alu' = execute_alu_quotient(alu, instruction)
          /\ raised' = IF alu.right = 0 THEN "ZeroDivisionError" ELSE "none"
    /\ UNCHANGED <<program, input_dict, dp, cu, instr_counter, state, result,
                   journal, script>>

\* DataPath.latch_alu: the next pair of operands
LatchQuotient ==
    /\ alu.phase = "executed"
    /\ \E left, right \in Operands :
          alu' = [alu EXCEPT !.phase = "latched", !.left = left, !.right = right]
    /\ UNCHANGED <<program, input_dict, dp, cu, instr_counter, state, raised,
                   result, journal, script>>

DivNext == ExecuteQuotient \/ LatchQuotient

DivSpec == DivInit /\ [][DivNext]_vars

(***************************************************************************)
(* translation.py.  A Python string is the sequence of its characters      *)
(* (Char records); a source is the sequence of its lines, and a line the   *)
(* sequence of terms that re.split leaves of it (line 63): the terms are   *)
(* what whitespace separates.                                              *)
(***************************************************************************)
Digit09 == <<"0", "1", "2", "3", "4", "5", "6", "7", "8", "9">>

LowerAZ == <<"a", "b", "c", "d", "e", "f", "g", "h", "i", "j", "k", "l", "m",
             "n", "o", "p", "q", "r", "s", "t", "u", "v", "w", "x", "y", "z">>

\* the code point of a character written as a one-character string
CodePoint(c) ==
    IF \E i \in 1 .. 10 : Digit09[i] = c
    THEN 47 + (CHOOSE i \in 1 .. 10 : Digit09[i] = c)
    ELSE IF \E i \in 1 .. 26 : LowerAZ[i] = c
    THEN 96 + (CHOOSE i \in 1 .. 26 : LowerAZ[i] = c)
    ELSE CASE c = "'" -> 39
           [] c = ":" -> 58
           [] c = ";" -> 59

\* the Python string spelled by the one-character strings of t
Str(t) == [i \in 1 .. Len(t) |-> Char(CodePoint(t[i]))]

Quote == Char(39)

Colon == Char(58)

Semicolon == Char(59)

\* str.isdigit() on the characters a source is written in
isdigit(t) == t # <<>> /\ \A i \in 1 .. Len(t) : ord(t[i]) \in 48 .. 57

\* int(t) for a string of digits
RECURSIVE int(_)
int(t) ==
    IF t = <<>> THEN 0
    ELSE int(SubSeq(t, 1, Len(t) - 1)) * 10 + (ord(t[Len(t)]) - 48)

\* len(term) == 3 and term[0] == "'" and term[2] == "'"
IsCharLiteral(t) == Len(t) = 3 /\ t[1] = Quote /\ t[3] = Quote

\* t[0:-1]
ButLast(t) == SubSeq(t, 1, Len(t) - 1)

\* len(terms) == 1 and terms[0][-1] == ':'
IsLabelLine(terms) == Len(terms) = 1 /\ terms[1][Len(terms[1])] = Colon

\* d[k] = v on a dict
Put(d, k, v) == [x \in DOMAIN d \cup {k} |-> IF x = k THEN v ELSE d[x]]

\* how each opcode, register and section is spelled: the keys of
\* str2opcode, str2register and str2section
OpcodeSpelling ==
    [o \in Opcode |->
        CASE o = "ld" -> Str(<<"l", "d">>)
          [] o = "sv" -> Str(<<"s", "v">>)
          [] o = "in" -> Str(<<"i", "n">>)
          [] o = "out" -> Str(<<"o", "u", "t">>)
          [] o = "add" -> Str(<<"a", "d", "d">>)
          [] o = "sub" -> Str(<<"s", "u", "b">>)
          [] o = "mul" -> Str(<<"m", "u", "l">>)
          [] o = "div" -> Str(<<"d", "i", "v">>)
          [] o = "mod" -> Str(<<"m", "o", "d">>)
          [] o = "cmp" -> Str(<<"c", "m", "p">>)
          [] o = "jmp" -> Str(<<"j", "m", "p">>)
          [] o = "je" -> Str(<<"j", "e">>)
          [] o = "jne" -> Str(<<"j", "n", "e">>)
          [] o = "iret" -> Str(<<"i", "r", "e", "t">>)
          [] o = "sti" -> Str(<<"s", "t", "i">>)
          [] o = "cli" -> Str(<<"c", "l", "i">>)
          [] o = "halt" -> Str(<<"h", "a", "l", "t">>)]

RegisterSpelling ==
    [r \in Register |->
        CASE r = "r0" -> Str(<<"r", "0">>)
          [] r = "r1" -> Str(<<"r", "1">>)
          [] r = "r2" -> Str(<<"r", "2">>)
          [] r = "r3" -> Str(<<"r", "3">>)
          [] r = "r4" -> Str(<<"r", "4">>)
          [] r = "sp" -> Str(<<"s", "p">>)
          [] r = "pc" -> Str(<<"p", "c">>)]

SectionSpelling ==
    [x \in {"data", "text"} |->
        IF x = "data" THEN Str(<<"d", "a", "t", "a">>)
        ELSE Str(<<"t", "e", "x", "t">>)]

InStr2opcode(t) == \E o \in Opcode : OpcodeSpelling[o] = t

str2opcode(t) == CHOOSE o \in Opcode : OpcodeSpelling[o] = t

InStr2register(t) == \E r \in Register : RegisterSpelling[r] = t

str2register(t) == CHOOSE r \in Register : RegisterSpelling[r] = t

InStr2section(t) == \E x \in DOMAIN SectionSpelling : SectionSpelling[x] = t

str2section(t) == CHOOSE x \in DOMAIN SectionSpelling : SectionSpelling[x] = t

KwSection == Str(<<"s", "e", "c", "t", "i", "o", "n">>)

KwWord == Str(<<"w", "o", "r", "d">>)

KwInt == Str(<<"i", "n", "t">>)

\* lines 67-70 and 113-116: the loop runs over the indices of the terms as
\* they were; it cuts the terms at one that starts with ';' and then indexes
\* the shortened list, so a comment of more than one term raises IndexError
StripComment(terms) ==
    LET at == {i \in 1 .. Len(terms) : terms[i][1] = Semicolon}
    IN  IF at = {} THEN [exc |-> "none", terms |-> terms]
        ELSE IF Min(at) = Len(terms)
             THEN [exc |-> "none", terms |-> ButLast(terms)]
        ELSE [exc |-> "IndexError", terms |-> SubSeq(terms, 1, Min(at) - 1)]

(***************************************************************************)
(* translate, pass 1 (lines 53-101): labels, data cells, the counters.     *)
(* The pass is threaded through a record of its variables and exc, the     *)
(* exception raised ("none" while none is).                                *)
(***************************************************************************)
Fail(a, e) == [a EXCEPT !.exc = e]

\* lines 71-75 and 117-121: a `section` line
Section(a, terms) ==
    IF Len(terms) < 2 THEN Fail(a, "IndexError")
    ELSE IF ~InStr2section(terms[2]) THEN Fail(a, "SyntaxError")
    ELSE [a EXCEPT !.state = str2section(terms[2])]

\* lines 89-97: a `word` line
Word(a, terms) ==
    IF Len(terms) # 2 THEN Fail(a, "SyntaxError")
    ELSE IF IsCharLiteral(terms[2])
         THEN [a EXCEPT !.data = Append(@, str(ord(terms[2][2]))),
                        !.data_count = @ + 1]
    ELSE IF ~isdigit(terms[2]) THEN Fail(a, "SyntaxError")
    ELSE [a EXCEPT !.data = Append(@, terms[2]), !.data_count = @ + 1]

\* the body of the loop of line 60 for one line
FirstPassLine(a, line) ==
    IF a.exc # "none" \/ line = <<>> THEN a
    ELSE LET sc == StripComment(line)
             terms == sc.terms
         IN  IF sc.exc # "none" THEN Fail(a, sc.exc)
             ELSE IF terms = <<>> THEN Fail(a, "IndexError")
             ELSE IF terms[1] = KwSection THEN Section(a, terms)
             ELSE IF ButLast(terms[1]) \in DOMAIN a.labels \cup DOMAIN a.data_labels
                  THEN Fail(a, "SyntaxError")
             ELSE IF a.state = "none" THEN Fail(a, "SyntaxError")
             ELSE IF a.state = "text"
                  THEN IF IsLabelLine(terms)
                       THEN [a EXCEPT !.labels =
                                Put(@, ButLast(terms[1]), str(a.instr_count))]
                       ELSE [a EXCEPT !.instr_count = @ + 1]
             ELSE IF IsLabelLine(terms)
                  THEN [a EXCEPT !.data_labels =
                           Put(@, ButLast(terms[1]), str(a.data_count))]
             ELSE IF terms[1] = KwWord THEN Word(a, terms)
             ELSE IF terms[1] = KwInt THEN a
             ELSE Fail(a, "SyntaxError")

RECURSIVE FirstPass(_, _, _)
FirstPass(a, script_, i) ==
    IF i > Len(script_) THEN a
    ELSE FirstPass(FirstPassLine(a, script_[i]), script_, i + 1)

FirstPassStartCountsFromZero ==
    [labels |-> <<>>, data_labels |-> <<>>, code |-> <<>>,
     data |-> [i \in 1 .. INTERRUPTION_VECTOR_SZ |-> Str(<<"0">>)],
     instr_count |-> 0, data_count |-> 0,
     state |-> "none", exc |-> "none"]

\* lines 53-59
FirstPassStart ==
    [labels |-> <<>>, data_labels |-> <<>>, code |-> <<>>,
     data |-> [i \in 1 .. INTERRUPTION_VECTOR_SZ |-> Str(<<"0">>)],
     instr_count |-> 0, data_count |-> INTERRUPTION_VECTOR_SZ,
     state |-> "none", exc |-> "none"]

(***************************************************************************)
(* translate, pass 2 (lines 102-222): the instructions and the vector.     *)
(***************************************************************************)
\* lines 134-144: one operand of an instruction
Operand(a, command, term) ==
    LET bad == /\ term \notin DOMAIN a.labels
               /\ term \in DOMAIN a.data_labels
               /\ command \notin {"sv", "ld"}
        t1 == IF term \in DOMAIN a.labels THEN a.labels[term]
              ELSE IF term \in DOMAIN a.data_labels /\ ~bad
                   THEN a.data_labels[term]
              ELSE term
        t2 == IF IsCharLiteral(t1) THEN str(ord(t1[2])) ELSE t1
    IN  [exc |-> IF bad \/ (~InStr2register(t2) /\ ~isdigit(t2))
                 THEN "SyntaxError" ELSE "none",
         term |-> t2]

\* OperandType.CONSTANT unless the term names a register
ArgType(term) == IF InStr2register(term) THEN "reg" ELSE "const"

\* lines 146-204: the instruction dict of a line, by the class of its opcode;
\* emit holds the dict, or is empty when the line is rejected
Encode(command, terms) ==
    IF command \in {"add", "cmp", "mul", "div", "mod", "sub"}
    THEN IF \/ Len(terms) # 4
            \/ ~InStr2register(terms[2])
            \/ ~InStr2register(terms[3])
         THEN <<>>
         ELSE <<[opcode |-> terms[1], arg1 |-> terms[3], arg2 |-> terms[4],
                 arg2_type |-> ArgType(terms[4]), out |-> terms[2]]>>
    ELSE IF command \in {"jmp", "out", "in"}
    THEN IF \/ Len(terms) # 2
            \/ ~InStr2register(terms[2]) /\ command = "in"
         THEN <<>>
         ELSE <<[opcode |-> terms[1], arg2 |-> terms[2],
                 arg2_type |-> ArgType(terms[2])]>>
    ELSE IF command \in {"je", "jne"}
    THEN IF Len(terms) # 3 \/ ~InStr2register(terms[2])
         THEN <<>>
         ELSE <<[opcode |-> terms[1], arg1 |-> terms[2], arg2 |-> terms[3],
                 arg2_type |-> ArgType(terms[3])]>>
    ELSE IF command = "ld"
    THEN IF Len(terms) # 3 \/ ~InStr2register(terms[2])
         THEN <<>>
         ELSE <<[opcode |-> terms[1], arg2 |-> terms[3],
                 arg2_type |-> ArgType(terms[3]), out |-> terms[2]]>>
    ELSE IF command = "sv"
    THEN IF Len(terms) # 3 \/ ~InStr2register(terms[2])
         THEN <<>>
         ELSE <<[opcode |-> terms[1], arg2 |-> terms[3],
                 arg2_type |-> ArgType(terms[3]), arg1 |-> terms[2]]>>
    ELSE <<[opcode |-> terms[1]]>>

\* lines 128-205: an instruction line of the text section
Instruction(a, terms) ==
    IF ~InStr2opcode(terms[1]) THEN Fail(a, "KeyError")
    ELSE LET command == str2opcode(terms[1])
             ops == [i \in 2 .. Len(terms) |-> Operand(a, command, terms[i])]
             normal == [i \in 1 .. Len(terms) |->
                           IF i = 1 THEN terms[1] ELSE ops[i].term]
             emit == Encode(command, normal)
         IN  IF \E i \in 2 .. Len(terms) : ops[i].exc # "none"
             THEN Fail(a, "SyntaxError")
             ELSE IF emit = <<>> THEN Fail(a, "SyntaxError")
             ELSE [a EXCEPT !.code = Append(@, emit[1]), !.instr_count = @ + 1]

\* lines 207-220: a line of the data section; only `int` does something
Vector(a, terms) ==
    LET normal == [i \in 1 .. Len(terms) |->
                      IF i > 1 /\ terms[i] \in DOMAIN a.labels
                      THEN a.labels[terms[i]] ELSE terms[i]]
    IN  IF normal[1] # KwInt THEN a
        ELSE IF Len(normal) # 3 THEN Fail(a, "SyntaxError")
        ELSE IF ~isdigit(normal[2]) THEN Fail(a, "SyntaxError")
        ELSE IF int(normal[2]) > INTERRUPTION_VECTOR_SZ - 1
             THEN Fail(a, "SyntaxError")
        ELSE IF ~isdigit(normal[3]) THEN Fail(a, "SyntaxError")
        ELSE [a EXCEPT !.data[int(normal[2]) + 1] = normal[3]]

\* the body of the loop of line 103 for one line
SecondPassLine(a, line) ==
    IF a.exc # "none" \/ line = <<>> THEN a
    ELSE LET sc == StripComment(line)
             terms == sc.terms
         IN  IF sc.exc # "none" THEN Fail(a, sc.exc)
             ELSE IF terms = <<>> THEN Fail(a, "IndexError")
             ELSE IF terms[1] = KwSection THEN Section(a, terms)
             ELSE IF a.state = "none" THEN Fail(a, "SyntaxError")
             ELSE IF a.state = "text"
                  THEN IF IsLabelLine(terms) THEN a ELSE Instruction(a, terms)
             ELSE Vector(a, terms)

RECURSIVE SecondPass(_, _, _)
SecondPass(a, script_, i) ==
    IF i > Len(script_) THEN a
    ELSE SecondPass(SecondPassLine(a, script_[i]), script_, i + 1)

translate_without_halt(script_) ==
    LET first == FirstPass(FirstPassStart, script_, 1)
        second == SecondPass([first EXCEPT !.instr_count = 0], script_, 1)
    IN  IF second.exc # "none" THEN [exc |-> second.exc]
        ELSE [exc |-> "none", code |-> second.code, data |-> second.data]

\* translate(script): the artifact {"code": .., "data": ..}, or the exception
translate(script_) ==
    LET first == FirstPass(FirstPassStart, script_, 1)
        second == SecondPass([first EXCEPT !.instr_count = 0], script_, 1)
    IN  IF second.exc # "none" THEN [exc |-> second.exc]
        ELSE [exc |-> "none",
              code |-> Append(second.code, [opcode |-> OpcodeSpelling["halt"]]),
              data |-> second.data]

(***************************************************************************)
(* isa.py, read_code (lines 59-78): the artifact as the simulator takes    *)
(* it, enum members for the names and integers for the numbers.            *)
(***************************************************************************)
ReadInstr(d) ==
    LET has(k) == k \in DOMAIN d
        const == has("arg2_type") /\ d.arg2_type = "const"
    IN  Instr(str2opcode(d.opcode),
              IF has("out") THEN str2register(d.out) ELSE "",
              IF has("arg1") THEN str2register(d.arg1) ELSE "",
              IF has("arg2_type") THEN d.arg2_type ELSE "",
              IF has("arg2_type") /\ ~const THEN str2register(d.arg2) ELSE "",
              IF const THEN int(d.arg2) ELSE 0)

read_code(artifact) ==
    [code |-> [i \in 1 .. Len(artifact.code) |-> ReadInstr(artifact.code[i])],
     data |-> [i \in 1 .. Len(artifact.data) |-> int(artifact.data[i])]]

(***************************************************************************)
(* Sources.                                                                *)
(***************************************************************************)
Op(o) == OpcodeSpelling[o]

Reg(r) == RegisterSpelling[r]

\* the character literal 'c'
Lit(c) == <<Quote, c, Quote>>

LabelX == Str(<<"x">>)

LabelXDef == Str(<<"x", ":">>)

Remark == Str(<<";", "c">>)

\* lines a text section is made of: instructions of every class with the
\* right and with a wrong number or kind of operands, a label and a use of
\* it, a comment
TextLines ==
    {<<Op("halt")>>, <<Op("halt"), Reg("r1")>>,
     <<Op("in"), Reg("r1")>>, <<Op("in"), Reg("r0")>>, <<Op("in"), str(1)>>,
     <<Op("out"), Reg("r1")>>, <<Op("out")>>,
     <<Op("add"), Reg("r1"), Reg("r1"), str(1)>>,
     <<Op("add"), Reg("r1"), Reg("r1")>>,
     <<Op("ld"), Reg("r1"), str(0)>>, <<Op("ld"), Reg("r1")>>,
     <<Op("sv"), Reg("r1"), str(1)>>, <<Op("sv"), Reg("r1"), str(1), str(2)>>,
     <<Op("je"), Reg("r1"), LabelX>>, <<Op("je"), Reg("r1")>>,
     <<Op("jmp"), str(0)>>, <<LabelXDef>>,
     <<Op("out"), Reg("r1"), Remark>>}

SectionLine(x) == <<KwSection, SectionSpelling[x]>>

\* section text followed by ProgLen lines
TextSources ==
    {<<SectionLine("text")>> \o body : body \in [1 .. ProgLen -> TextLines]}

\* what a `word` line may declare
WordTerms == {Lit(Char(116)), Lit(Char(101)), str(7)}

\* the value a word term declares
WordValue(w) == IF IsCharLiteral(w) THEN ord(w[2]) ELSE int(w)

\* the address the k-th word cell (k from 1) is expected at
WordAddress(k) == INTERRUPTION_VECTOR_SZ + k - 1

\* the data section: n words, the j-th with the label x in front of it, and
\* the vector
RECURSIVE DataLines(_, _, _)
DataLines(words, j, k) ==
    IF k > Len(words) THEN <<<<KwInt, str(0), str(0)>>>>
    ELSE (IF k = j THEN <<<<LabelXDef>>>> ELSE <<>>)
         \o <<<<KwWord, words[k]>>>> \o DataLines(words, j, k + 1)

\* the text section: each cell in turn is loaded and printed, the j-th by
\* its label when by_label, the others by their address
RECURSIVE WalkLines(_, _, _, _)
WalkLines(n, j, by_label, k) ==
    IF k > n THEN <<>>
    ELSE <<<<Op("ld"), Reg("r1"),
             IF k = j /\ by_label THEN LabelX ELSE str(WordAddress(k))>>,
           <<Op("out"), Reg("r1")>>>>
         \o WalkLines(n, j, by_label, k + 1)

LayoutSource(words, j, by_label, data_first) ==
    LET data == <<SectionLine("data")>> \o DataLines(words, j, 1)
        text == <<SectionLine("text")>> \o WalkLines(Len(words), j, by_label, 1)
    IN  IF data_first THEN data \o text ELSE text \o data

LayoutSources ==
    {LayoutSource(words, j, by_label, data_first) :
        words \in UNION {[1 .. n -> WordTerms] : n \in 1 .. MaxWords},
        j \in 1 .. MaxWords, by_label \in BOOLEAN, data_first \in BOOLEAN}

Sources == TextSources \cup LayoutSources

(***************************************************************************)
(* From source to run: translate, then launch_processor's read_code and    *)
(* the set-up of simulation(), then the loop of simulation().              *)
(***************************************************************************)
AsmInit ==
    /\ script \in Sources
    /\ state = "source"
    /\ program = [code |-> <<>>, data |-> <<>>]
    /\ input_dict = <<>>
    /\ dp = DataPath(<<>>, FALSE)
    /\ cu = ControlUnit(<<>>)
    /\ instr_counter = 0
    /\ raised = "none"
    /\ result = <<>>
    /\ journal = <<>>
    /\ alu = NoAlu

\* translation.main: translate and write_code
Translate ==
    /\ state = "source"
    /\ LET artifact == translate(script)
       IN  IF artifact.exc # "none"
           THEN /\ state' = "rejected"
                /\ raised' = artifact.exc
                /\ UNCHANGED program
           ELSE /\ state' = "translated"
                /\ program' = [code |-> artifact.code, data |-> artifact.data]
                /\ UNCHANGED raised
    /\ UNCHANGED <<input_dict, dp, cu, instr_counter, result, journal, script,
                   alu>>

\* launch_processor: read_code, and simulation() up to its loop
Launch ==
    /\ state = "translated"
    /\ program' = read_code(program)
    /\ \E output_int \in BOOLEAN :
          dp' = DataPath(LoadData(program'.data), output_int)
    /\ cu' = ControlUnit(input_dict)
    /\ state' = "loop"
    /\ UNCHANGED <<input_dict, instr_counter, raised, result, journal, script,
                   alu>>

AsmNext == Translate \/ Launch \/ Iterate \/ Stop \/ Crash \/ LimitExceeded

AsmSpec == AsmInit /\ [][AsmNext]_vars

(***************************************************************************)
(* Vocabulary of the properties.                                           *)
(***************************************************************************)
IsPrefix(p, q) == Len(p) <= Len(q) /\ \A i \in 1 .. Len(p) : p[i] = q[i]

Last(q) == q[Len(q)]

\* the payloads of a schedule in ascending order of their keys
RECURSIVE InKeyOrder(_)
InKeyOrder(schedule) ==
    IF DOMAIN schedule = {} THEN <<>>
    ELSE LET k == Min(DOMAIN schedule)
         IN  <<schedule[k]>> \o InKeyOrder([j \in DOMAIN schedule \ {k} |-> schedule[j]])

\* what print() appends for a payload in the run's output mode
Echoed(c) == IF dp.output_int THEN ord(c) ELSE c

EchoedAll == [i \in 1 .. Len(InKeyOrder(input_dict)) |->
                 Echoed(InKeyOrder(input_dict)[i])]

\* the journal indices of the calls that admitted an interrupt
Admissions == {i \in 1 .. Len(journal) : journal[i].admitted # {}}

\* the instruction names reg as the register it writes
WritesTo(instr, reg) ==
    \/ instr.opcode \in {"add", "sub", "mul", "div", "mod", "cmp", "ld"}
       /\ instr.out = reg
    \/ instr.opcode = "in" /\ instr.arg2 = reg

\* the instruction may store to the memory cell a
MayStoreTo(instr, a) ==
    instr.opcode = "sv" /\ (instr.arg2_type = "reg" \/ instr.imm = a)

\* the call of journal entry i executed IRET inside a handler
MatchedIret(i) ==
    /\ journal[i].instr.opcode = "iret"
    /\ journal[i].in_handler \/ journal[i].admitted # {}

(***************************************************************************)
(* C1.  Echo: for the program sti; spin; handler in r, out r, iret, the    *)
(* output buffer is always a prefix of the schedule's payloads in          *)
(* ascending key order; it is the whole sequence once the queue is empty   *)
(* and the last handler has returned; and the register an IN has just      *)
(* loaded holds the payload of the interrupt admitted last.                *)
(***************************************************************************)
C1_EchoInKeyOrder ==
    program \in EchoPrograms =>
        /\ IsPrefix(dp.output_buffer, EchoedAll)
        /\ (DOMAIN cu.int_queue = {} /\ ~cu.is_interrupted)
              => dp.output_buffer = EchoedAll
        /\ (state = "loop" /\ cu.instr.opcode = "in")
              => /\ Admissions # {}
                 /\ \E k \in journal[Max(Admissions)].admitted :
                       dp.registers[cu.instr.arg2] = ord(input_dict[k])

C1_Witness ==
    /\ program \in EchoPrograms
    /\ ~dp.output_int
    /\ DOMAIN cu.int_queue = {} /\ ~cu.is_interrupted
    /\ dp.output_buffer = <<Char(98), Char(97)>>

(***************************************************************************)
(* C2.  Interrupts are admitted in strictly ascending order of their keys, *)
(* and the tick counter at the fetch boundary that admits key k is at      *)
(* least k.                                                                *)
(***************************************************************************)
C2_AscendingAdmission ==
    \A i \in Admissions :
        \A k \in journal[i].admitted :
            /\ journal[i].tick >= k
            /\ \A j \in Admissions :
                  j < i => \A l \in journal[j].admitted : l < k

C2_Witness ==
    \E i, j \in Admissions :
        /\ i < j
        /\ journal[i].admitted = {0}
        /\ journal[j].admitted = {2}
        /\ journal[j].pending = {2}

(***************************************************************************)
(* C3.  An admission happens only at a fetch boundary with int_enabled     *)
(* true and is_interrupted false: int_enabled was last set by an STI that  *)
(* no CLI followed, an IRET was executed since the previous admission, and *)
(* a call that starts with int_enabled false or is_interrupted true leaves *)
(* the queue as it was.                                                    *)
(***************************************************************************)
C3_AdmissionGated ==
    \A i \in 1 .. Len(journal) :
        /\ journal[i].admitted # {} =>
              /\ journal[i].int_enabled /\ ~journal[i].in_handler
              /\ \E s \in 1 .. i - 1 :
                    /\ journal[s].instr.opcode = "sti"
                    /\ \A c \in s + 1 .. i - 1 : journal[c].instr.opcode # "cli"
              /\ \A j \in Admissions :
                    j < i => \E r \in j .. i - 1 : journal[r].instr.opcode = "iret"
        /\ (~journal[i].int_enabled \/ journal[i].in_handler)
              => journal[i].admitted = {}

C3_Witness ==
    /\ journal # <<>>
    /\ Last(journal).in_handler /\ Last(journal).int_enabled
    /\ \E k \in Last(journal).pending : Last(journal).tick >= k
    /\ \E i \in 1 .. Len(journal) :
          /\ ~journal[i].int_enabled
          /\ \E k \in journal[i].pending : journal[i].tick >= k

(***************************************************************************)
(* C4.  Eager admission: a call whose fetch boundary has int_enabled true, *)
(* is_interrupted false and a pending key no greater than the tick counter *)
(* admits the minimum pending key, and nothing else.                       *)
(***************************************************************************)
C4_EagerAdmission ==
    \A i \in 1 .. Len(journal) :
        (/\ journal[i].int_enabled
         /\ ~journal[i].in_handler
         /\ \E k \in journal[i].pending : journal[i].tick >= k)
        => journal[i].admitted = {Min(journal[i].pending)}

\* key 2 admitted at the boundary of tick 2, the boundary before it (tick 1,
\* interrupts enabled, no handler running) having been too early
C4_Witness ==
    \E i \in 2 .. Len(journal) :
        /\ journal[i].admitted = {2}
        /\ journal[i].tick = 2
        /\ journal[i - 1].int_enabled /\ ~journal[i - 1].in_handler
        /\ journal[i - 1].pending = {2}
        /\ journal[i - 1].tick = 1

(***************************************************************************)
(* C5.  As claimed: SP <= DATA_MEM_SZ in every reachable state of every    *)
(* program the assembler can emit.                                         *)
(***************************************************************************)
C5_SPNeverAboveTop == dp.registers["sp"] <= DATA_MEM_SZ

\* no executed instruction named SP as its destination, and every IRET
\* executed so far returned from a handler
StackDisciplined ==
    \A i \in 1 .. Len(journal) :
        /\ ~WritesTo(journal[i].instr, "sp")
        /\ journal[i].instr.opcode = "iret" => MatchedIret(i)

(***************************************************************************)
(* C5, amended.  SP <= DATA_MEM_SZ in every state of an execution in which *)
(* no executed instruction names SP as its destination and IRET is         *)
(* executed only inside a handler.                                         *)
(***************************************************************************)
C5_SPBoundedWhenDisciplined ==
    StackDisciplined => dp.registers["sp"] <= DATA_MEM_SZ

C5_Witness ==
    /\ StackDisciplined
    /\ state = "loop"
    /\ \E i \in 1 .. Len(journal) : MatchedIret(i)
    /\ \E i \in Admissions : journal[i].sp = DATA_MEM_SZ
    /\ dp.registers["sp"] = DATA_MEM_SZ

(***************************************************************************)
(* C6.  Matched push/IRET.  CleanReturn(i, j): call i admitted an          *)
(* interrupt, call j is the first to execute IRET from then on, and no     *)
(* instruction the handler executed before it names SP as destination or   *)
(* may store to the cell the admission pushed to.                          *)
(***************************************************************************)
CleanReturn(i, j) ==
    /\ i \in Admissions
    /\ j \in i .. Len(journal)
    /\ journal[j].instr.opcode = "iret"
    /\ j = Len(journal) => state = "loop"
    /\ \A h \in i .. j - 1 :
          /\ journal[h].instr.opcode # "iret"
          /\ ~WritesTo(journal[h].instr, "sp")
          /\ ~MayStoreTo(journal[h].instr, journal[i].sp)

\* SP and PC after call j are those at the fetch boundary of call i
Restored(i, j) ==
    IF j = Len(journal)
    THEN /\ dp.registers["sp"] = journal[i].sp
         /\ dp.registers["pc"] = journal[i].pc
    ELSE /\ journal[j + 1].sp = journal[i].sp
         /\ journal[j + 1].pc = journal[i].pc

\* as claimed: SP and PC are restored, and the call after the IRET executes
\* the preempted instruction
C6_PreemptedExecutedNext ==
    \A i, j \in 1 .. Len(journal) :
        CleanReturn(i, j) =>
            /\ Restored(i, j)
            /\ j < Len(journal) =>
                  /\ journal[j + 1].fetched
                  /\ journal[j + 1].fetch_pc = journal[i].pc

(***************************************************************************)
(* C6, amended.  After a clean return SP and PC are those of the fetch     *)
(* boundary that admitted the interrupt, and the next call executes the    *)
(* preempted instruction unless it admits a further interrupt.             *)
(***************************************************************************)
C6_RoundTrip ==
    \A i, j \in 1 .. Len(journal) :
        CleanReturn(i, j) =>
            /\ Restored(i, j)
            /\ (j < Len(journal) /\ journal[j + 1].admitted = {}) =>
                  /\ journal[j + 1].fetched
                  /\ journal[j + 1].fetch_pc = journal[i].pc
                  /\ journal[j + 1].instr = program.code[journal[i].pc + 1]

C6_Witness ==
    \E i, j \in 1 .. Len(journal) :
        /\ CleanReturn(i, j)
        /\ j > i
        /\ j < Len(journal)
        /\ journal[j + 1].admitted = {}
        /\ journal[i].sp = DATA_MEM_SZ
        /\ journal[i].pc > 0

(***************************************************************************)
(* C7.  tick and the two instruction counters never decrease; tick is at   *)
(* least the driver's count, and at least the control unit's count after   *)
(* every completed instruction; a call that fetches HLT adds no tick of    *)
(* its own and leaves the control unit's count at most one ahead; the      *)
(* returned triple has tick >= instr_count.                                *)
(***************************************************************************)
C7_Step ==
    /\ cu'.tick >= cu.tick
    /\ instr_counter' >= instr_counter
    /\ cu'.instr_cnt >= cu.instr_cnt
    /\ instr_counter' > instr_counter => cu'.tick > cu.tick
    /\ cu'.tick >= instr_counter'
    /\ state' = "loop" => cu'.tick >= cu'.instr_cnt
    /\ (state = "loop" /\ raised' = "StopIteration") =>
          /\ cu'.tick = cu.tick + (IF Last(journal').admitted # {} THEN 3 ELSE 0)
          /\ cu'.tick >= cu'.instr_cnt - 1
    /\ result' # <<>> => result'[3] >= result'[2]

C7_TickCoversInstructions == [][C7_Step]_vars

C7_Witness ==
    /\ state = "returned"
    /\ raised = "StopIteration"
    /\ instr_counter >= 2
    /\ cu.instr_cnt = cu.tick + 1
    /\ result[2] = result[3]

(***************************************************************************)
(* C8.  R0 holds 0 in every reachable state.                               *)
(***************************************************************************)
C8_R0IsZero == dp.registers["r0"] = 0

\* R0 has just been latched as an operand by out/sv/je/jne, R1 not being 0
C8_Witness ==
    /\ state = "loop"
    /\ dp.registers["r1"] # 0
    /\ dp.operand_1 = "r0"
    /\ cu.instr.opcode \in {"out", "sv", "je", "jne"}
    /\ \A i \in 1 .. Len(journal) : ~WritesTo(journal[i].instr, "r0")

(***************************************************************************)
(* C9.  A call that fetches an instruction naming R0 as its destination    *)
(* ends the run cleanly: simulation returns the output produced so far,    *)
(* and registers, memory and tick are those at the fetch; nothing changes  *)
(* after the return.                                                       *)
(***************************************************************************)
C9_Step ==
    /\ (journal' # journal /\ WritesTo(Last(journal').instr, "r0")) =>
          /\ state' = "returned"
          /\ raised' = "MemoryError"
          /\ dp'.registers = AtFetch.dp.registers
          /\ dp'.data_memory = AtFetch.dp.data_memory
          /\ cu'.tick = AtFetch.cu.tick
          /\ dp'.output_buffer = dp.output_buffer
          /\ result' = <<Render(dp.output_buffer, dp.output_int),
                         instr_counter, AtFetch.cu.tick>>
    /\ state = "returned" => UNCHANGED <<dp, cu, result>>

C9_WriteToR0EndsCleanly == [][C9_Step]_vars

C9_Witness ==
    /\ state = "returned"
    /\ raised = "MemoryError"
    /\ Len(dp.output_buffer) = 1
    /\ result[1] # <<>>
    /\ cu.instr.opcode = "in"

(***************************************************************************)
(* C10.  As claimed: when IN executes with no unread item in the input     *)
(* buffer, the run ends cleanly with the input-exhausted outcome and       *)
(* returns the output produced so far.                                     *)
(***************************************************************************)
C10_InputExhaustedEndsCleanly ==
    (/\ cu.instr.opcode = "in"
     /\ cu.instr.arg2 # "r0"
     /\ cu.instr_cnt > instr_counter
     /\ dp.input_pointer = Len(dp.input_buffer))
    => /\ state = "returned"
       /\ raised = "EOFError"
       /\ result = <<Render(dp.output_buffer, dp.output_int), instr_counter, cu.tick>>
(***************************************************************************)
(* C11.  As claimed: for ADD, SUB, MUL, INC, DEC, CMP, LEFT, RIGHT, NOP    *)
(* and operands in [INT32_MIN, INT32_MAX], the value execute_alu puts on   *)
(* alu_bus and output_bus lies in [INT32_MIN, INT32_MAX].                  *)
(***************************************************************************)
C11_AluRangeClosed ==
    alu.phase = "executed" =>
        /\ InInt32(alu.alu_bus)
        /\ InInt32(alu.output_bus)

(***************************************************************************)
(* C12.  After every ALU execution the zero flag says whether the value    *)
(* put on alu_bus, the result after the wrap, is zero.                     *)
(***************************************************************************)
C12_ZeroFlagIsResultZero ==
    /\ alu.phase = "executed" => (alu.zero_flag <=> alu.alu_bus = Wide(0))
    /\ dp.zero_flag <=> dp.alu_bus = 0

\* INT32_MAX - INT32_MIN is 2^32 - 1 before the wrap and 0 after it
C12_Witness ==
    /\ alu.phase = "executed"
    /\ alu.instruction \in {"SUB", "CMP"}
    /\ alu.left = INT32_MAX /\ alu.right = INT32_MIN
    /\ alu.zero_flag

(***************************************************************************)
(* C13.  As claimed: a completed LD out, src leaves in out the memory cell *)
(* at address a, the immediate when src is a constant and the value        *)
(* register src holds at the fetch when it is a register.                  *)
(***************************************************************************)
C13_Step ==
    (/\ journal' # journal
     /\ state' = "loop"
     /\ Last(journal').instr.opcode = "ld")
    => LET instr == Last(journal').instr
           a == IF instr.arg2_type = "const" THEN instr.imm
                ELSE AtFetch.dp.registers[instr.arg2]
       IN  /\ IndexOk(a, MemLen)
           /\ dp'.registers[instr.out] =
                  Cell(AtFetch.dp.data_memory, ListIndex(a, MemLen))

C13_LoadReadsAddressedCell == [][C13_Step]_vars

(***************************************************************************)
(* C14.  Data layout.  For a source that declares word cells, labels one   *)
(* of them and loads and prints each cell in turn (by the label or by the  *)
(* address INTERRUPTION_VECTOR_SZ + k, the data section before or after    *)
(* the text): the source is accepted; cell k of the artifact's data holds  *)
(* the k-th word; the label resolves to the address of the cell it         *)
(* precedes; the loaded memory holds the words at those addresses; and the *)
(* run prints the words in order and returns them.                         *)
(***************************************************************************)
WordSeqs == UNION {[1 .. n -> WordTerms] : n \in 1 .. MaxWords}

\* what print() appends for the value v in the run's output mode
Printed(v) == IF dp.output_int THEN v ELSE Char(v)

LayoutAgrees(words) ==
    LET n == Len(words)
        printed == [k \in 1 .. n |-> Printed(WordValue(words[k]))]
    IN  /\ state \notin {"rejected", "raised"}
        /\ state = "translated" =>
              /\ Len(program.data) = INTERRUPTION_VECTOR_SZ + n
              /\ \A k \in 1 .. n :
                    program.data[WordAddress(k) + 1] = str(WordValue(words[k]))
        /\ state \in {"loop", "returned"} =>
              /\ \A k \in 1 .. n :
                    /\ program.data[WordAddress(k) + 1] = WordValue(words[k])
                    /\ program.code[2 * k - 1] = LoadC("r1", WordAddress(k))
                    /\ Cell(dp.data_memory, WordAddress(k)) = WordValue(words[k])
              /\ IsPrefix(dp.output_buffer, printed)
              /\ Len(dp.output_buffer) = instr_counter \div 2
        /\ state = "returned" =>
              /\ dp.output_buffer = printed
              /\ result[1] = Render(printed, dp.output_int)

C14_DataLayoutAgrees ==
    (\E i \in 1 .. Len(script) : script[i] = SectionLine("data")) =>
        \A words \in WordSeqs, j \in 1 .. MaxWords,
           by_label, data_first \in BOOLEAN :
            script = LayoutSource(words, j, by_label, data_first)
                => LayoutAgrees(words)

\* the second of two cells loaded by a label that is defined after its use
C14_Witness ==
    /\ script = LayoutSource(<<Lit(Char(116)), Lit(Char(101))>>, 2, TRUE, FALSE)
    /\ state = "returned"
    /\ result[1] = <<Char(116), Char(101)>>

(***************************************************************************)
(* C15.  The code of every accepted source ends in HLT, whatever its last  *)
(* line; a call that fetches at the index of that HLT fetches it and ends  *)
(* the run normally.                                                       *)
(***************************************************************************)
C15_EndsInHalt ==
    /\ state = "translated" =>
          /\ program.code # <<>>
          /\ Last(program.code) = [opcode |-> Op("halt")]
    /\ state \in {"loop", "returned", "raised"} =>
          /\ program.code # <<>>
          /\ Last(program.code) = Nullary("halt")
          /\ \A i \in 1 .. Len(journal) :
                (journal[i].fetched /\ journal[i].fetch_pc = Len(program.code) - 1)
                => /\ journal[i].instr = Nullary("halt")
                   /\ i = Len(journal)
                   /\ state = "returned"
                   /\ raised = "StopIteration"

\* a source whose last line is `out r1` ran off its end into the HLT
C15_Witness ==
    /\ Last(script) = <<Op("out"), Reg("r1")>>
    /\ state = "returned"
    /\ raised = "StopIteration"
    /\ instr_counter = Len(program.code) - 1
    /\ Last(journal).fetch_pc = Len(program.code) - 1
    /\ Len(dp.output_buffer) > 0

(***************************************************************************)
(* C17.  As claimed: a source with an IN whose destination is R0 is        *)
(* rejected with a syntax error, and no artifact holds an IN into R0.      *)
(***************************************************************************)
C17_InIntoR0Rejected ==
    /\ (\E i \in 1 .. Len(script) : script[i] = <<Op("in"), Reg("r0")>>)
          => \/ state = "source"
             \/ state = "rejected" /\ raised = "SyntaxError"
    /\ state \in {"loop", "returned", "raised"} =>
          \A i \in 1 .. Len(program.code) :
              ~(program.code[i].opcode = "in" /\ program.code[i].arg2 = "r0")

(***************************************************************************)
(* C18.  As claimed: a source with an instruction line whose number of     *)
(* operands is not that of its opcode class (3 for ADD/SUB/MUL/DIV/MOD/    *)
(* CMP, 1 for JMP/OUT/IN, 2 for JE/JNE/LD/SV, 0 for IRET/CLI/STI/HLT) is   *)
(* rejected with a syntax error.                                           *)
(***************************************************************************)
Arity(o) ==
    CASE o \in {"add", "sub", "mul", "div", "mod", "cmp"} -> 3
      [] o \in {"jmp", "out", "in"} -> 1
      [] o \in {"je", "jne", "ld", "sv"} -> 2
      [] o \in {"iret", "cli", "sti", "halt"} -> 0

\* an instruction line, comment removed, with a wrong number of operands
WrongArity(line) ==
    LET terms == StripComment(line).terms
    IN  /\ terms # <<>>
        /\ InStr2opcode(terms[1])
        /\ Len(terms) - 1 # Arity(str2opcode(terms[1]))

C18_WrongArityRejected ==
    (\E i \in 1 .. Len(script) : WrongArity(script[i]))
        => \/ state = "source"
           \/ state = "rejected" /\ raised = "SyntaxError"

(***************************************************************************)
(* C16.  Every run ends.  The driver makes at most Limit calls and counts  *)
(* at most Limit instructions; a call that fetches HLT makes simulation    *)
(* return normally, with a count below the cap; the fatal assertion fires  *)
(* only when the count has reached Limit, and a run that never fetches HLT *)
(* nor raises is ended by it; once ended a run stays ended.                *)
(***************************************************************************)
Ended == state \in {"returned", "raised"}

\* every state inside the loop has a next step: the assertion fails, or the
\* call is made and falls in exactly one of the cases of Iterate, Stop, Crash
TurnPossible ==
    \/ ~(Limit > instr_counter)
    \/ /\ Running
       /\ LET d == Dispatch(AtFetch)
          IN  \/ Ok(d)
              \/ d.exc \in Caught
              \/ ~Ok(d) /\ d.exc \notin Caught

C16_Capped ==
    /\ instr_counter <= Limit
    /\ Len(journal) <= Limit
    /\ \A i \in 1 .. Len(journal) :
          (journal[i].fetched /\ journal[i].instr = Nullary("halt"))
          => /\ i = Len(journal)
             /\ state = "returned"
             /\ raised = "StopIteration"
             /\ instr_counter < Limit
             /\ result[2] = instr_counter
    /\ raised = "AssertionError"
          => /\ state = "raised"
             /\ instr_counter = Limit
             /\ Len(journal) = Limit
    /\ state = "loop" => TurnPossible

C16_EveryRunEnds ==
    /\ []C16_Capped
    /\ <>[]Ended

\* the endless loop `jmp 0` is stopped by the assertion at the cap
C16_Witness ==
    /\ program.code[1] = UnaryC("jmp", 0)
    /\ state = "raised"
    /\ raised = "AssertionError"
    /\ instr_counter = Limit
    /\ \A i \in 1 .. Len(journal) : journal[i].instr = UnaryC("jmp", 0)

(***************************************************************************)
(* C19.  The tick cost of a call is fixed by what it executes.  A          *)
(* completed admission adds exactly 3 ticks before the fetch.  An          *)
(* instruction that runs to its end adds: HLT 0, IRET 2, JMP 1, JE and JNE *)
(* 1 when the branch is not taken and 2 when it is, every other opcode 1;  *)
(* the increment of PC that follows adds none.  An instruction that is     *)
(* aborted by an exception adds no more than that.                         *)
(***************************************************************************)
\* the cost of instr fetched with the registers of f
Cost(instr, f) ==
    CASE instr.opcode = "halt" -> 0
      [] instr.opcode = "iret" -> 2
      [] instr.opcode = "jmp" -> 1
      [] instr.opcode = "je" ->
            IF f.dp.registers[instr.arg1] = 0 THEN 2 ELSE 1
      [] instr.opcode = "jne" ->
            IF f.dp.registers[instr.arg1] # 0 THEN 2 ELSE 1
      [] OTHER -> 1

\* the opcodes after which the control unit increments PC
Sequential ==
    {"out", "in", "add", "sub", "mul", "div", "mod", "cmp", "ld", "sv",
     "sti", "cli"}

C19_Step ==
    journal' # journal =>
        LET e == Last(journal')
            f == AtFetch
            admission == IF e.admitted # {} THEN 3 ELSE 0
        IN  /\ Ok(Boundary(Machine)) => f.cu.tick = cu.tick + admission
            /\ e.fetched =>
                  /\ cu'.tick <= cu.tick + admission + Cost(e.instr, f)
                  /\ (state' = "loop" \/ e.instr.opcode = "halt") =>
                        cu'.tick = cu.tick + admission + Cost(e.instr, f)
                  /\ (state' = "loop" /\ e.instr.opcode \in Sequential
                        /\ e.instr.out # "pc"
                        /\ ~(e.instr.opcode = "in" /\ e.instr.arg2 = "pc")) =>
                        dp'.registers["pc"] = f.dp.registers["pc"] + 1

C19_FixedTickCost == [][C19_Step]_vars

\* a taken JE fetched right after an admission: 3 + 2 ticks
C19_Witness ==
    \E i \in 1 .. Len(journal) - 1 :
        /\ journal[i].admitted # {}
        /\ journal[i].instr.opcode = "je"
        /\ journal[i + 1].tick = journal[i].tick + 3 + 2

(***************************************************************************)
(* C20.  The effect of an admission.  A call that admits an interrupt at   *)
(* a boundary with SP = s and PC = p reaches its fetch with memory[s] = p, *)
(* SP = s - 1 and PC = the content of memory cell 0 after the push, the    *)
(* minimum key removed from the queue, its payload appended to the input   *)
(* buffer and is_interrupted set; every other register, memory cell and    *)
(* flag is as before; the instruction the call executes is the one at that *)
(* PC; the queue and the input buffer are the same after the call.         *)
(***************************************************************************)
C20_Step ==
    (journal' # journal /\ Last(journal').admitted # {}) =>
        LET b == Boundary(Machine)
            e == Last(journal')
            s == dp.registers["sp"]
            p == dp.registers["pc"]
            k == Min(DOMAIN cu.int_queue)
            a == ListIndex(s, MemLen)
            handler == Cell(b.dp.data_memory, 0)
        IN  Ok(b) =>
              /\ Cell(b.dp.data_memory, a) = p
              /\ \A c \in (DOMAIN b.dp.data_memory \cup DOMAIN dp.data_memory) \ {a} :
                    Cell(b.dp.data_memory, c) = Cell(dp.data_memory, c)
              /\ a # 0 => handler = Cell(dp.data_memory, 0)
              /\ b.dp.registers =
                    [dp.registers EXCEPT !["sp"] = s - 1, !["pc"] = handler]
              /\ DOMAIN b.cu.int_queue = DOMAIN cu.int_queue \ {k}
              /\ \A j \in DOMAIN b.cu.int_queue : b.cu.int_queue[j] = cu.int_queue[j]
              /\ b.dp.input_buffer = Append(dp.input_buffer, cu.int_queue[k])
              /\ b.cu.is_interrupted
              /\ b.cu.int_enabled = cu.int_enabled
              /\ b.dp.output_buffer = dp.output_buffer
              /\ b.dp.input_pointer = dp.input_pointer
              /\ b.cu.tick = cu.tick + 3
              /\ e.admitted = {k}
              /\ e.fetch_pc = handler
              /\ e.fetched =>
                    e.instr = program.code[ListIndex(handler, Len(program.code)) + 1]
              /\ cu'.int_queue = b.cu.int_queue
              /\ dp'.input_buffer = b.dp.input_buffer

C20_AdmissionEffect == [][C20_Step]_vars

\* the call just made admitted an interrupt with the stack empty, in the
\* middle of the program, and entered the handler named by cell 0
C20_Witness ==
    /\ journal # <<>>
    /\ Last(journal).admitted # {}
    /\ Last(journal).sp = DATA_MEM_SZ
    /\ Last(journal).pc > 1
    /\ Last(journal).fetch_pc = 1
    /\ Cell(dp.data_memory, 0) = 1
    /\ Cell(dp.data_memory, DATA_MEM_SZ) = Last(journal).pc
    /\ dp.registers["sp"] = DATA_MEM_SZ - 1
    /\ Len(dp.input_buffer) = 1
    /\ cu.is_interrupted

(***************************************************************************)
(* C21.  The branch decision.  A call that executes JMP leaves PC at the   *)
(* target; JE arg1, t leaves PC at t when the register arg1 holds 0 at the *)
(* fetch and at the fetch PC + 1 otherwise; JNE arg1, t the other way      *)
(* round.  The target is the immediate, or what the target register holds  *)
(* at the fetch.  Whatever flag an earlier instruction left plays no part, *)
(* and no other register changes.                                          *)
(***************************************************************************)
C21_Step ==
    (/\ journal' # journal
     /\ Last(journal').fetched
     /\ Last(journal').instr.opcode \in {"jmp", "je", "jne"}) =>
        LET instr == Last(journal').instr
            f == AtFetch
            target == IF instr.arg2_type = "const" THEN instr.imm
                      ELSE f.dp.registers[instr.arg2]
            taken == \/ instr.opcode = "jmp"
                     \/ instr.opcode = "je" /\ f.dp.registers[instr.arg1] = 0
                     \/ instr.opcode = "jne" /\ f.dp.registers[instr.arg1] # 0
        IN  /\ state' = "loop"
            /\ dp'.registers =
                  [f.dp.registers EXCEPT
                      !["pc"] = IF taken THEN target ELSE @ + 1]

C21_BranchDecision == [][C21_Step]_vars

\* `ld r1 0` leaves the zero flag set (its address is 0) and r1 = 1: the JE
\* that follows compares afresh and falls through
C21_Witness ==
    /\ Len(journal) = 2
    /\ journal[1].instr = LoadC("r1", 0)
    /\ journal[2].instr = BranchC("je", "r1", 0)
    /\ state = "loop"
    /\ dp.registers["r1"] = 1
    /\ dp.registers["pc"] = 2

(***************************************************************************)
(* C22.  A completed SV arg1, addr stores what register arg1 holds at the  *)
(* fetch in the memory cell at a, the immediate or what the address        *)
(* register holds at the fetch, and changes nothing else: every other      *)
(* cell, every register but PC (the fetch PC + 1), the output and input    *)
(* buffers, the interrupt flags and the queue are as at the fetch.         *)
(***************************************************************************)
C22_Step ==
    (/\ journal' # journal
     /\ Last(journal').fetched
     /\ Last(journal').instr.opcode = "sv"
     /\ state' = "loop") =>
        LET instr == Last(journal').instr
            f == AtFetch
            a == IF instr.arg2_type = "const" THEN instr.imm
                 ELSE f.dp.registers[instr.arg2]
            cell == ListIndex(a, MemLen)
        IN  /\ Cell(dp'.data_memory, cell) = f.dp.registers[instr.arg1]
            /\ \A c \in (DOMAIN dp'.data_memory \cup DOMAIN f.dp.data_memory)
                          \ {cell} :
                  Cell(dp'.data_memory, c) = Cell(f.dp.data_memory, c)
            /\ dp'.registers = [f.dp.registers EXCEPT !["pc"] = @ + 1]
            /\ dp'.output_buffer = f.dp.output_buffer
            /\ dp'.input_buffer = f.dp.input_buffer
            /\ dp'.input_pointer = f.dp.input_pointer
            /\ cu'.int_enabled = f.cu.int_enabled
            /\ cu'.is_interrupted = f.cu.is_interrupted
            /\ cu'.int_queue = f.cu.int_queue

C22_StoreWritesOneCell == [][C22_Step]_vars

\* `add r2 r0 7; sv r2 r1`: r1 holds 0, so the 7 lands in cell 0
C22_Witness ==
    /\ Len(journal) = 2
    /\ journal[2].instr = Store("r2", "r1")
    /\ state = "loop"
    /\ dp.registers["r2"] = 7
    /\ dp.registers["r1"] = 0
    /\ Cell(dp.data_memory, 0) = 7
    /\ program.data = <<1>>
    /\ dp.registers["pc"] = 2

(***************************************************************************)
(* C23.  As claimed: a completed CMP keeps only the zero flag.  Every      *)
(* register other than PC, the one named in its out field included, and    *)
(* all of data memory are as at the fetch; PC is the fetch PC + 1.         *)
(***************************************************************************)
C23_Step ==
    (/\ journal' # journal
     /\ Last(journal').fetched
     /\ Last(journal').instr.opcode = "cmp"
     /\ state' = "loop") =>
        LET f == AtFetch
        IN  /\ dp'.registers = [f.dp.registers EXCEPT !["pc"] = @ + 1]
            /\ dp'.data_memory = f.dp.data_memory

C23_CompareKeepsRegisters == [][C23_Step]_vars

(***************************************************************************)
(* C24.  As claimed: for ADD, SUB, INC, DEC on operands in the 32-bit      *)
(* range with raw result r, execute_alu delivers INT32_MIN + (r -          *)
(* INT32_MAX) when r > INT32_MAX, INT32_MAX - (INT32_MIN - r) when         *)
(* r < INT32_MIN, and r itself otherwise.                                  *)
(***************************************************************************)
C24_ReflectiveWrapValue ==
    (alu.phase = "executed" /\ alu.instruction \in {"ADD", "SUB", "INC", "DEC"}) =>
        LET r == WideAluResult(alu.instruction, Wide(alu.left), Wide(alu.right))
            delivered ==
                IF WideLess(WideMax, r)
                THEN WideAdd(WideMin, WideSub(r, WideMax))
                ELSE IF WideLess(r, WideMin)
                THEN WideSub(WideMax, WideSub(WideMin, r))
                ELSE r
        IN  /\ alu.alu_bus = delivered
            /\ alu.output_bus = delivered

(***************************************************************************)
(* C25.  As claimed: for a non-zero right operand DIV delivers the integer *)
(* quotient truncated toward zero and MOD the remainder with the sign of   *)
(* the dividend, left - DIV(left, right) * right.  A delivered float       *)
(* counts as the integer it is equal to.                                   *)
(***************************************************************************)
Abs(n) == IF n < 0 THEN -n ELSE n

\* the quotient truncated toward zero
TruncDiv(left, right) ==
    IF (left < 0) # (right < 0)
    THEN -(Abs(left) \div Abs(right))
    ELSE Abs(left) \div Abs(right)

\* res == n: the result of DIV is a float, that of MOD an integer
IsNumber(instruction, res, n) ==
    IF instruction = "DIV" THEN res.num = n * res.den ELSE res = n

C25_TruncatedDivision ==
    alu.phase = "executed" =>
        /\ alu.instruction = "DIV" =>
              IsNumber("DIV", alu.alu_bus, TruncDiv(alu.left, alu.right))
        /\ alu.instruction = "MOD" =>
              IsNumber("MOD", alu.alu_bus,
                       alu.left - TruncDiv(alu.left, alu.right) * alu.right)

(***************************************************************************)
(* C26.  Admission comes before halting.  A call made with PC at HLT while *)
(* interrupts are enabled, no handler is running and a pending key is      *)
(* <= tick admits the minimum such key and executes the handler's first    *)
(* instruction (the one at the address in memory cell 0, when the program  *)
(* has one there); it ends the run by HLT only if that instruction is HLT. *)
(* A run ends by HLT only when HLT is what the call fetched after the      *)
(* admission check.  A program standing on HLT with interrupts enabled has *)
(* therefore, when it stops, echoed the payload of every key <= the tick   *)
(* of its last fetch boundary, and only the later keys are still queued.   *)
(***************************************************************************)
Due == {k \in DOMAIN cu.int_queue : k <= cu.tick}

AtHalt ==
    /\ IndexOk(dp.registers["pc"], Len(program.code))
    /\ program.code[ListIndex(dp.registers["pc"], Len(program.code)) + 1]
          = Nullary("halt")

\* the payloads of the keys up to t, in key order, as print() emits them
EchoedUpTo(t) ==
    LET reached == {k \in DOMAIN input_dict : k <= t}
        payloads == InKeyOrder([k \in reached |-> input_dict[k]])
    IN  [i \in 1 .. Len(payloads) |-> Echoed(payloads[i])]

C26_Step ==
    journal' # journal =>
        LET e == Last(journal')
            handler == Cell(AtFetch.dp.data_memory, 0)
        IN  /\ (AtHalt /\ cu.int_enabled /\ ~cu.is_interrupted /\ Due # {}) =>
                  /\ e.admitted = {Min(Due)}
                  /\ e.fetch_pc = handler
                  /\ IndexOk(handler, Len(program.code)) =>
                        /\ e.fetched
                        /\ e.instr = program.code[ListIndex(handler,
                                                           Len(program.code)) + 1]
                  /\ e.instr.opcode # "halt" => raised' # "StopIteration"
            /\ raised' = "StopIteration" =>
                  /\ e.fetched
                  /\ e.instr = Nullary("halt")
                  /\ e.admitted = {} =>
                        ~(cu.int_enabled /\ ~cu.is_interrupted /\ Due # {})

C26_Parked ==
    (program \in ParkedPrograms /\ state = "returned") =>
        /\ raised = "StopIteration"
        /\ Last(journal).fetch_pc = 1
        /\ dp.output_buffer = EchoedUpTo(Last(journal).tick)
        /\ DOMAIN cu.int_queue = {k \in DOMAIN input_dict : k > Last(journal).tick}

C26_AdmissionBeforeHalt == [][C26_Step]_vars /\ []C26_Parked

\* keys 0 and 2: both are admitted by calls made with PC at the HLT, the
\* second one after the first handler has returned there
C26_Witness ==
    /\ program \in ParkedPrograms
    /\ DOMAIN input_dict = {0, 2}
    /\ state = "returned"
    /\ Len(dp.output_buffer) = 2
    /\ \E i, j \in 1 .. Len(journal) :
          /\ i < j
          /\ journal[i].pc = 1 /\ journal[i].admitted = {0}
          /\ journal[j].pc = 1 /\ journal[j].admitted = {2}
====
